---- MODULE Spec2Model ----
(***************************************************************************)
(* Model of the plevee strategy execution engine:                          *)
(*   app/api/routes/strategies.py   create / activate / deactivate         *)
(*   app/api/routes/portfolio.py    create_portfolio                       *)
(*   app/api/routes/trading.py      execute_trade (POST /execute)          *)
(*   app/tasks/strategy_executor.py execute_strategy, stop_strategy, the   *)
(*                                  two signal functions, _execute_trade   *)
(*   app/core/services/webull.py    get_bars and its sample bars           *)
(*   app/tasks/market_data.py       update_prices (the only beat entry)    *)
(*   app/core/database/models.py    the mapped columns of each table       *)
(*   app/celery_app.py              queues and beat_schedule               *)
(*                                                                         *)
(* The store is the committed content of the database.  A Celery worker    *)
(* process runs one execute_strategy at a time; its run is cut at the      *)
(* points where it reads or writes the store, so that API requests and     *)
(* other workers interleave with it.  A price series enters a run as the   *)
(* values the signal functions take from it: its length, its last close    *)
(* and the latest values of the indicators TA-Lib computes from it.        *)
(*                                                                         *)
(* Spec starts on an empty database.  JobSpec starts with a delivered job  *)
(* on any content of the strategies and portfolios tables, LedgerSpec on a *)
(* database that holds trades already: the two situations no sequence of   *)
(* requests to this code produces, rows being deleted and trades being     *)
(* stored only from outside it.                                            *)
(***************************************************************************)
EXTENDS Integers, Sequences, FiniteSets, TLC

\* ------------------------------------------------------------ bounds
\* Calls of PATCH /{id}/activate, plus second deliveries of a message by the
\* broker, that the model lets happen in one run.
MaxActivate == 2
\* Largest quantity value a strategy's parameters carry in the model.
MaxQuantity == 2

\* ------------------------------------------------------------ universes
Strategies == {"s1", "s2"}
Portfolios == {"p1"}
Workers == {"w1", "w2"}

\* The users that call the API: "u1", who creates every row of the model,
\* and another user.
Users == {"u1", "u2"}

\* The strategies the model creates, as <<strategy_type, quantity parameter>>.
\* strategy_type is a free string of CreateStrategyRequest, of which
\* execute_strategy knows "momentum" and "mean_reversion" only; the quantity
\* parameter is absent ({}) or one value, 0 being a quantity no trade can
\* have.
StrategyKinds ==
    {<<"momentum", {}>>, <<"mean_reversion", {MaxQuantity}>>,
     <<"golden_cross", {}>>, <<"momentum", {0}>>}

\* The second strategy is of one of the first two kinds.
KindsOf(s) ==
    IF s = "s1" THEN StrategyKinds
    ELSE {<<"momentum", {}>>, <<"mean_reversion", {MaxQuantity}>>}

\* strategy.parameters.get("quantity", 10)
DefaultQuantity == 10

\* Last close of the bars the provider returns.
Prices == {80, 100}

\* What get_bars returned, as an evaluator uses it: the number of bars, the
\* last close, and the latest values of the indicators TA-Lib computes from
\* the closes (RSI, MACD line and signal line, Bollinger bands).
BarsOf(n, rsi, macd, sig, close, lower, upper) ==
    [n |-> n, rsi |-> rsi, macd |-> macd, signal |-> sig, close |-> close,
     lower |-> lower, upper |-> upper]

\* Series that exercise the momentum rule: each side of RSI 30 and of RSI 70
\* with the MACD line below, on and above its signal line (which is 1), at a
\* last close of 100; the two signalling series at a last close of 80 too;
\* and one series of 49 bars.
MomentumBars ==
    {BarsOf(50, x[1], x[2], 1, 100, 70, 110) :
        x \in {<<29, 2>>, <<29, 1>>, <<29, 0>>, <<30, 2>>,
               <<71, 0>>, <<71, 1>>, <<71, 2>>, <<70, 0>>}}
    \cup {BarsOf(50, 29, 2, 1, 80, 70, 110), BarsOf(50, 71, 0, 1, 80, 70, 110),
          BarsOf(49, 29, 2, 1, 100, 70, 110)}

\* Series that exercise the mean-reversion rule: the last close below, on
\* and above the lower band, and below, on and above the upper band; and one
\* series of 19 bars.
MeanReversionBars ==
    {BarsOf(20, 50, 1, 1, x[1], x[2], x[3]) :
        x \in {<<80, 90, 110>>, <<80, 80, 100>>, <<80, 70, 110>>,
               <<100, 70, 110>>, <<100, 80, 100>>, <<100, 70, 90>>}}
    \cup {BarsOf(19, 50, 1, 1, 80, 90, 110)}

Bars == MomentumBars \cup MeanReversionBars

\* _get_sample_bars(symbol, limit=100): 100 bars of random closes near 150,
\* of which the model takes one series on which both rules say BUY and one
\* on which neither rule says anything.
SampleBars ==
    {BarsOf(100, 29, 2, 1, 150, 151, 153), BarsOf(100, 50, 1, 1, 150, 148, 152)}

\* WebullService.get_bars: the bars of the provider's response; the sample
\* bars when there is no client, when the response is empty and when the call
\* raised anything (provider_ok false).
get_bars(provider_ok, bars, sample) == IF provider_ok THEN bars ELSE sample

\* Every series a signal function can get from get_bars.
FetchedBars ==
    {get_bars(provider_ok, bars, sample) :
        provider_ok \in BOOLEAN, bars \in Bars, sample \in SampleBars}

\* No bars fetched.
NoBars == BarsOf(0, 0, 0, 0, 0, 0, 0)

\* What CreateTradeRequest lets a caller of POST /execute send: side is any
\* string, quantity and price any Decimal.
RouteSides == {"buy", "sell", "hold"}
RouteQuantities == {0, MaxQuantity}
RoutePrices == Prices \cup {0}

\* Balances a portfolio is created with.
InitialBalances == {10000}

NoRow == [exists |-> FALSE]

\* An execute_strategy message: its one argument, str(strategy_id), and which
\* delivery of the message this is (the broker delivers an unacknowledged
\* message again).  The message carries nothing else.
Msg(s, n) == [strategy_id |-> s, delivery |-> n]

\* A worker that holds no message.
NoJob == Msg("none", 0)

\* ------------------------------------------------------------ models.py
\* Attributes of the mapped class Trade (columns and relationships).
TradeAttrs ==
    {"id", "user_id", "portfolio_id", "strategy_id", "exchange_name", "symbol",
     "asset_class", "side", "order_type", "quantity", "price", "executed_price",
     "status", "order_id", "fees", "profit_loss", "executed_at", "created_at",
     "portfolio", "strategy"}

\* Columns of Trade that are nullable=False and have no default.
TradeRequired ==
    {"user_id", "portfolio_id", "exchange_name", "symbol", "asset_class", "side",
     "order_type", "quantity", "status"}

\* Attributes of the mapped class Strategy.
StrategyAttrs ==
    {"id", "user_id", "portfolio_id", "name", "description", "strategy_type",
     "asset_class", "symbols", "parameters", "is_active", "created_at",
     "updated_at", "user", "portfolio", "trades", "backtest_results"}

\* Attributes of the mapped class MarketData.
MarketDataAttrs ==
    {"time", "symbol", "asset_class", "exchange", "open", "high", "low", "close",
     "volume", "interval"}

\* Base = declarative_base(): the default constructor raises TypeError for a
\* keyword that is no attribute of the class.
DeclarativeAccepts(kwargs, attrs) == kwargs \subseteq attrs

\* INSERT succeeds only if every NOT NULL column without default has a value.
InsertAccepted(kwargs, required) == required \subseteq kwargs

\* ------------------------------------------------------------ state
VARIABLES
    strategy,       \* table strategies: id -> row
    portfolio,      \* table portfolios: id -> row
    trades,         \* table trades, in insertion order
    positions,      \* table positions: set of rows
    market_data,    \* table market_data: set of rows
    queue,          \* broker queue "strategies": execute_strategy messages
    pc,             \* per worker: "idle", "load", "run", "trade"
    job,            \* per worker: the message it holds
    results,        \* the dict the execute_strategy run that ended last returned
    feed_results,   \* the dict the update_prices run that ended last returned
    activate_calls, \* number of activate requests made so far
    logged,         \* the messages _execute_trade has written to the log
    talib,          \* whether "import talib" succeeds in the workers
    signals,        \* per worker: the signal its run got ({} for None)
    fetched,        \* per worker: the bars that signal was computed from
    redeliveries    \* number of second deliveries so far

vars == <<strategy, portfolio, trades, positions, market_data, queue, pc, job,
          results, feed_results, activate_calls, logged, talib, signals, fetched,
          redeliveries>>

Init ==
    /\ strategy = [s \in Strategies |-> NoRow]
    /\ portfolio = [p \in Portfolios |-> NoRow]
    /\ trades = <<>>
    /\ positions = {}
    /\ market_data = {}
    /\ queue = <<>>
    /\ pc = [w \in Workers |-> "idle"]
    /\ job = [w \in Workers |-> NoJob]
    /\ results = {}
    /\ feed_results = {}
    /\ activate_calls = 0
    /\ logged = {}
    /\ talib \in BOOLEAN
    /\ signals = [w \in Workers |-> {}]
    /\ fetched = [w \in Workers |-> NoBars]
    /\ redeliveries = 0

IsActive(s) == strategy[s].exists /\ strategy[s].is_active

\* dict.get(key, default) on a parameter that is absent ({}) or present ({v}).
Get(param, default) == IF param = {} THEN default ELSE CHOOSE v \in param : TRUE

\* ------------------------------------------------------------ portfolio.py
\* POST /portfolios: a new row with current_balance = initial_balance.
create_portfolio(p, initial_balance) ==
    /\ ~portfolio[p].exists
    /\ portfolio' = [portfolio EXCEPT ![p] =
                        [exists |-> TRUE,
                         initial_balance |-> initial_balance,
                         current_balance |-> initial_balance]]
    /\ UNCHANGED <<talib, signals, fetched, redeliveries, strategy, trades,
                   positions, market_data, queue, pc, job, results,
                   feed_results, activate_calls, logged>>

\* ------------------------------------------------------------ strategies.py
\* POST /strategies: 404 unless the portfolio exists; the row is stored with
\* the caller as its user and is_active=False.  strategy_type and parameters
\* are stored as given.
create_strategy(s, p, strategy_type, quantity) ==
    /\ ~strategy[s].exists
    /\ portfolio[p].exists
    /\ strategy' = [strategy EXCEPT ![s] =
                       [exists |-> TRUE,
                        user_id |-> "u1",
                        portfolio_id |-> p,
                        strategy_type |-> strategy_type,
                        parameters |-> [quantity |-> quantity],
                        is_active |-> FALSE]]
    /\ UNCHANGED <<talib, signals, fetched, redeliveries, portfolio, trades,
                   positions, market_data, queue, pc, job, results,
                   feed_results, activate_calls, logged>>

\* A send that puts the message on the queue twice.
delay_twice(q, s) == Append(Append(q, Msg(s, 1)), Msg(s, 1))

\* execute_strategy.delay(str(strategy_id)): one message on the queue.
delay(q, s) == Append(q, Msg(s, 1))

\* A lookup by id alone, whoever the caller is.
Found_any(s, caller) == strategy[s].exists

\* The row activate and deactivate look up: the strategy of that id that is
\* the caller's.
Found(s, caller) == strategy[s].exists /\ strategy[s].user_id = caller

\* PATCH /{strategy_id}/activate.  The row is looked up (404 if the caller
\* has no such strategy: no change), is_active is set and committed, then the
\* task is sent; broker_up is whether the broker takes the message (if not,
\* delay raises after the commit and the request ends 500).  The commit and
\* the send are one step: the send changes the queue only, and no worker can
\* take the message before it is sent, so every interleaving between them
\* reaches the same states.
activate_strategy(s, caller, broker_up) ==
    /\ activate_calls + redeliveries < MaxActivate
    /\ activate_calls' = activate_calls + 1
    /\ IF Found(s, caller)
       THEN /\ strategy' = [strategy EXCEPT ![s].is_active = TRUE]
            /\ queue' = IF broker_up THEN delay(queue, s) ELSE queue
       ELSE UNCHANGED <<strategy, queue>>
    /\ UNCHANGED <<talib, signals, fetched, redeliveries, portfolio, trades,
                   positions, market_data, pc, job, results, feed_results,
                   logged>>

\* A deactivation that also revokes the runs in flight on the strategy.
deactivate_and_revoke(s, caller) ==
    /\ Found(s, caller)
    /\ strategy' = [strategy EXCEPT ![s].is_active = FALSE]
    /\ pc' = [w \in Workers |-> IF job[w].strategy_id = s THEN "idle" ELSE pc[w]]
    /\ job' = [w \in Workers |-> IF job[w].strategy_id = s THEN NoJob ELSE job[w]]
    /\ UNCHANGED <<talib, signals, fetched, redeliveries, portfolio, trades,
                   positions, market_data, queue, results, feed_results,
                   activate_calls, logged>>

\* PATCH /{strategy_id}/deactivate: the row is looked up (404 if the caller
\* has no such strategy: no change), is_active is set to False and committed.
\* Nothing is sent to or taken from the queue and no worker is touched.
deactivate_strategy(s, caller) ==
    /\ strategy' = IF Found(s, caller)
                   THEN [strategy EXCEPT ![s].is_active = FALSE]
                   ELSE strategy
    /\ UNCHANGED <<talib, signals, fetched, redeliveries, portfolio, trades,
                   positions, market_data, queue, pc, job, results,
                   feed_results, activate_calls, logged>>

\* ------------------------------------------------------------ strategy_executor.py
\* len(bars) below which the evaluators log "Insufficient data".
MinMomentumBars == 50
MinMeanReversionBars == 20

\* RSI levels of the momentum rule.
Oversold == 30
Overbought == 70

\* An intent sized by the activate requests made so far.
Intent_by_load(row, side, bars) ==
    [symbol |-> "AAPL",
     side |-> side,
     quantity |-> Get(row.parameters.quantity, DefaultQuantity) + activate_calls,
     price |-> bars.close]

\* The intent an evaluator returns.
Intent(row, side, bars) ==
    [symbol |-> "AAPL",
     side |-> side,
     quantity |-> Get(row.parameters.quantity, DefaultQuantity),
     price |-> bars.close]

\* A momentum rule that signals on either condition alone.
_check_momentum_signal_either(row, bars) ==
    IF ~talib \/ bars.n < MinMomentumBars THEN {}
    ELSE IF bars.rsi < Oversold \/ bars.macd > bars.signal
    THEN {Intent(row, "BUY", bars)}
    ELSE IF bars.rsi > Overbought \/ bars.macd < bars.signal
    THEN {Intent(row, "SELL", bars)}
    ELSE {}

\* _check_momentum_signal: None ({}) when TA-Lib cannot be imported or fewer
\* than 50 bars came back; otherwise RSI(14) and MACD(12, 26, 9) of the closes
\* decide: BUY, SELL or None.  The dict holds the symbol, the side, the
\* strategy's quantity parameter (default 10) and the last close.
_check_momentum_signal(row, bars) ==
    IF ~talib THEN {}
    ELSE IF bars.n < MinMomentumBars THEN {}
    ELSE IF bars.rsi < Oversold /\ bars.macd > bars.signal
    THEN {Intent(row, "BUY", bars)}
    ELSE IF bars.rsi > Overbought /\ bars.macd < bars.signal
    THEN {Intent(row, "SELL", bars)}
    ELSE {}

\* A mean-reversion rule that signals on the bands themselves.
_check_mean_reversion_signal_inclusive(row, bars) ==
    IF ~talib \/ bars.n < MinMeanReversionBars THEN {}
    ELSE IF bars.close <= bars.lower THEN {Intent(row, "BUY", bars)}
    ELSE IF bars.close >= bars.upper THEN {Intent(row, "SELL", bars)}
    ELSE {}

\* _check_mean_reversion_signal: None without TA-Lib or with fewer than 20
\* bars; otherwise BBANDS(20, 2, 2) of the closes decide.
_check_mean_reversion_signal(row, bars) ==
    IF ~talib THEN {}
    ELSE IF bars.n < MinMeanReversionBars THEN {}
    ELSE IF bars.close < bars.lower THEN {Intent(row, "BUY", bars)}
    ELSE IF bars.close > bars.upper THEN {Intent(row, "SELL", bars)}
    ELSE {}

\* Keywords _execute_trade passes to Trade(...).
ExecutorTradeKwargs ==
    {"portfolio_id", "symbol", "side", "quantity", "price", "total_value",
     "order_type", "status", "executed_at"}

\* An executor whose Trade(...) is accepted by the mapped class and the table:
\* the trade is added and committed, and nothing else is written.
_execute_trade_accepting(trs, p, signal) ==
    LET trade == [portfolio_id |-> p,
                  symbol |-> signal.symbol,
                  side |-> signal.side,
                  quantity |-> signal.quantity,
                  price |-> signal.price,
                  total_value |-> signal.quantity * signal.price,
                  order_type |-> "market",
                  status |-> "executed"]
    IN  [trade |-> {trade}, trades |-> Append(trs, trade),
         log |-> "Trade executed"]

\* An executor that returns the Trade it built although nothing was
\* committed.
_execute_trade_returning(trs, p, signal) ==
    [trade |-> {[portfolio_id |-> p, symbol |-> signal.symbol,
                 side |-> signal.side, quantity |-> signal.quantity,
                 price |-> signal.price]},
     trades |-> trs,
     log |-> "Error executing trade"]

\* An executor whose rollback takes the last committed trade off the table.
_execute_trade_undoing(trs, p, signal) ==
    [trade |-> {},
     trades |-> IF trs = <<>> THEN trs ELSE SubSeq(trs, 1, Len(trs) - 1),
     log |-> "Error executing trade"]

\* _execute_trade(session, portfolio, signal): builds the Trade, adds and
\* commits it and returns it; on any exception rolls back and returns None.
\* Result: the trade returned ({} for None), the trades table afterwards and
\* the message logged.  The function writes no other table.
_execute_trade(trs, p, signal) ==
    LET total_value == signal.quantity * signal.price
        trade == [portfolio_id |-> p,
                  symbol |-> signal.symbol,
                  side |-> signal.side,
                  quantity |-> signal.quantity,
                  price |-> signal.price,
                  total_value |-> total_value,
                  order_type |-> "market",
                  status |-> "executed"]
    IN  IF /\ DeclarativeAccepts(ExecutorTradeKwargs, TradeAttrs)
           /\ InsertAccepted(ExecutorTradeKwargs, TradeRequired)
        THEN [trade |-> {trade}, trades |-> Append(trs, trade),
              log |-> "Trade executed"]
        ELSE [trade |-> {}, trades |-> trs, log |-> "Error executing trade"]

\* Keywords POST /execute passes to Trade(...).
RouteTradeKwargs ==
    {"portfolio_id", "symbol", "side", "quantity", "price", "total_value",
     "order_type", "status", "executed_at"}

\* POST /execute (trading.py): 404 when the portfolio is not the caller's;
\* otherwise builds the Trade, adds and commits it.  Nothing catches an
\* exception of the constructor or the commit: the request ends with a 500
\* and the session is closed with nothing written.
\* The route writes neither Position nor Portfolio.
execute_trade(p, side, quantity, price) ==
    /\ portfolio[p].exists
    /\ LET trade == [portfolio_id |-> p,
                     symbol |-> "AAPL",
                     side |-> side,
                     quantity |-> quantity,
                     price |-> price,
                     total_value |-> quantity * price,
                     order_type |-> "market",
                     status |-> "executed"]
       IN  IF /\ DeclarativeAccepts(RouteTradeKwargs, TradeAttrs)
              /\ InsertAccepted(RouteTradeKwargs, TradeRequired)
           THEN trades' = Append(trades, trade)
           ELSE trades' = trades
    /\ UNCHANGED <<talib, signals, fetched, redeliveries, logged, strategy,
                   portfolio, positions, market_data, queue, pc, job, results,
                   feed_results, activate_calls>>

\* A worker takes the next execute_strategy message from the queue.
receive(w) ==
    /\ pc[w] = "idle"
    /\ queue # <<>>
    /\ job' = [job EXCEPT ![w] = Head(queue)]
    /\ queue' = Tail(queue)
    /\ pc' = [pc EXCEPT ![w] = "load"]
    /\ UNCHANGED <<talib, signals, fetched, redeliveries, strategy, portfolio,
                   trades, positions, market_data, results, feed_results,
                   activate_calls, logged>>

\* A load whose failure takes the worker process down with it.
execute_strategy_load_crashing(w) ==
    /\ pc[w] = "load"
    /\ pc' = [pc EXCEPT ![w] =
                 IF IsActive(job[w].strategy_id) THEN "run" ELSE "crashed"]
    /\ UNCHANGED <<strategy, portfolio, trades, positions, market_data, queue,
                   job, results, feed_results, activate_calls, logged, talib,
                   signals, fetched, redeliveries>>

\* A load whose query does not filter on is_active.
execute_strategy_load_unfiltered(w) ==
    /\ pc[w] = "load"
    /\ strategy[job[w].strategy_id].exists
    /\ portfolio[strategy[job[w].strategy_id].portfolio_id].exists
    /\ pc' = [pc EXCEPT ![w] = "run"]
    /\ UNCHANGED <<results, job, talib, signals, fetched, redeliveries,
                   strategy, portfolio, trades, positions, market_data, queue,
                   feed_results, activate_calls, logged>>

\* A load that goes on without looking for the portfolio.
execute_strategy_load_unchecked(w) ==
    /\ pc[w] = "load"
    /\ LET s == job[w].strategy_id
       IN  IF ~IsActive(s)
           THEN /\ results' =
                       {[status |-> "error",
                         message |-> "Strategy not found or inactive"]}
                /\ pc' = [pc EXCEPT ![w] = "idle"]
                /\ job' = [job EXCEPT ![w] = NoJob]
           ELSE /\ pc' = [pc EXCEPT ![w] = "run"]
                /\ UNCHANGED <<results, job>>
    /\ UNCHANGED <<talib, signals, fetched, redeliveries, strategy, portfolio,
                   trades, positions, market_data, queue, feed_results,
                   activate_calls, logged>>

\* execute_strategy, first part: the strategy is queried with the filter
\* is_active == True, then its portfolio; either query finding nothing ends
\* the task with an "error" dict.  No row changes between the two queries
\* (portfolios are never deleted), so they are one step.
execute_strategy_load(w) ==
    /\ pc[w] = "load"
    /\ LET s == job[w].strategy_id
       IN  IF ~IsActive(s)
           THEN /\ results' =
                       {[status |-> "error",
                         message |-> "Strategy not found or inactive"]}
                /\ pc' = [pc EXCEPT ![w] = "idle"]
                /\ job' = [job EXCEPT ![w] = NoJob]
           ELSE IF ~portfolio[strategy[s].portfolio_id].exists
           THEN /\ results' =
                       {[status |-> "error", message |-> "Portfolio not found"]}
                /\ pc' = [pc EXCEPT ![w] = "idle"]
                /\ job' = [job EXCEPT ![w] = NoJob]
           ELSE /\ pc' = [pc EXCEPT ![w] = "run"]
                /\ UNCHANGED <<results, job>>
    /\ UNCHANGED <<talib, signals, fetched, redeliveries, strategy, portfolio,
                   trades, positions, market_data, queue, feed_results,
                   activate_calls, logged>>

\* The signal execute_strategy gets for a strategy: that of the signal
\* function of its type, none for any other type.
SignalOf(row, bars) ==
    IF row.strategy_type = "momentum"
    THEN _check_momentum_signal(row, bars)
    ELSE IF row.strategy_type = "mean_reversion"
    THEN _check_mean_reversion_signal(row, bars)
    ELSE {}

\* The dict execute_strategy returns at its end, or the dict of its except
\* branch when an exception reached it.
Returned(s, trades_executed, raises) ==
    IF raises
    THEN [status |-> "error", message |-> "exception"]
    ELSE [status |-> "success", strategy_id |-> s,
          trades_executed |-> trades_executed]

\* An end of run that stops the strategy it has executed.
SetLastExecuted_stopping(s) == [strategy EXCEPT ![s].is_active = FALSE]

\* strategy.last_executed_at = utcnow() and commit: Strategy maps no such
\* column, so the commit writes nothing.
SetLastExecuted(s) ==
    IF "last_executed_at" \in StrategyAttrs
    THEN [strategy EXCEPT ![s] = [last_executed_at |-> "utcnow"] @@ @]
    ELSE strategy

\* A run whose evaluation, on finding a signal, deactivates the strategy.
execute_strategy_run_deactivating(w, bars, raises) ==
    /\ pc[w] = "run"
    /\ SignalOf(strategy[job[w].strategy_id], bars) # {}
    /\ signals' = [signals EXCEPT
                      ![w] = SignalOf(strategy[job[w].strategy_id], bars)]
    /\ fetched' = [fetched EXCEPT ![w] = bars]
    /\ pc' = [pc EXCEPT ![w] = "trade"]
    /\ strategy' = [strategy EXCEPT ![job[w].strategy_id].is_active = FALSE]
    /\ UNCHANGED <<results, job, portfolio, trades, positions, market_data,
                   queue, feed_results, activate_calls, logged, talib,
                   redeliveries>>

\* execute_strategy, second part: the signal function of the strategy's type
\* (no signal for any other type) fetches the bars and evaluates them.  With
\* no signal the task sets last_executed_at, commits and returns; raises is
\* whether that raised (a failing commit, the soft time limit), which the
\* except branch turns into an "error" dict.  With a signal the task goes on
\* to _execute_trade.
execute_strategy_run(w, bars, raises) ==
    /\ pc[w] = "run"
    /\ LET s == job[w].strategy_id
           row == strategy[s]
           sig == SignalOf(row, bars)
       IN  IF sig = {}
           THEN /\ strategy' = IF raises THEN strategy ELSE SetLastExecuted(s)
                /\ results' = {Returned(s, 0, raises)}
                /\ pc' = [pc EXCEPT ![w] = "idle"]
                /\ job' = [job EXCEPT ![w] = NoJob]
                /\ UNCHANGED <<signals, fetched>>
           ELSE /\ signals' = [signals EXCEPT ![w] = sig]
                /\ fetched' = [fetched EXCEPT ![w] = bars]
                /\ pc' = [pc EXCEPT ![w] = "trade"]
                /\ UNCHANGED <<strategy, results, job>>
    /\ UNCHANGED <<portfolio, trades, positions, market_data, queue,
                   feed_results, activate_calls, logged, talib, redeliveries>>

\* execute_strategy, third part: _execute_trade on the signal (its own commit
\* or rollback), trades_executed counted when it returned a trade, then
\* last_executed_at, the commit and the return as above.
execute_strategy_trade(w, raises) ==
    /\ pc[w] = "trade"
    /\ LET s == job[w].strategy_id
           sig == CHOOSE x \in signals[w] : TRUE
           done == _execute_trade(trades, strategy[s].portfolio_id, sig)
           trades_executed == IF done.trade # {} THEN 1 ELSE 0
       IN  /\ trades' = done.trades
           /\ logged' = logged \cup {done.log}
           /\ strategy' = IF raises THEN strategy ELSE SetLastExecuted(s)
           /\ results' = {Returned(s, trades_executed, raises)}
    /\ pc' = [pc EXCEPT ![w] = "idle"]
    /\ job' = [job EXCEPT ![w] = NoJob]
    /\ signals' = [signals EXCEPT ![w] = {}]
    /\ fetched' = [fetched EXCEPT ![w] = NoBars]
    /\ UNCHANGED <<portfolio, positions, market_data, queue, feed_results,
                   activate_calls, talib, redeliveries>>

\* task_soft_time_limit expires while the run is at its signal function:
\* SoftTimeLimitExceeded, an Exception, is raised where the task is.  In
\* get_bars the except branch there returns the sample bars and the
\* evaluation goes on with them; elsewhere in the signal function its except
\* branch returns None and the task ends as with no signal; in
\* execute_strategy itself the except branch returns the "error" dict.
soft_time_limit(w, where, sample) ==
    /\ pc[w] = "run"
    /\ LET s == job[w].strategy_id
       IN  IF where = "get_bars"
           THEN /\ strategy[s].strategy_type \in {"momentum", "mean_reversion"}
                /\ talib
                /\ execute_strategy_run(w, get_bars(FALSE, NoBars, sample), FALSE)
           ELSE /\ where = "signal" =>
                       strategy[s].strategy_type \in {"momentum", "mean_reversion"}
                /\ strategy' = IF where = "signal" THEN SetLastExecuted(s)
                                ELSE strategy
                /\ results' = {Returned(s, 0, where # "signal")}
                /\ pc' = [pc EXCEPT ![w] = "idle"]
                /\ job' = [job EXCEPT ![w] = NoJob]
                /\ UNCHANGED <<signals, fetched, portfolio, trades, positions,
                               market_data, queue, feed_results, activate_calls,
                               logged, talib, redeliveries>>

\* stop_strategy(strategy_id), a task of the queue "strategies" that nothing
\* in the code sends: the row is looked up by id, is_active is set to False
\* and committed.  With no row the task returns an error and writes nothing.
\* A stop that flips the flag instead of clearing it.
stop_strategy_toggle(s) ==
    /\ strategy' = IF strategy[s].exists
                   THEN [strategy EXCEPT ![s].is_active = ~strategy[s].is_active]
                   ELSE strategy
    /\ UNCHANGED <<talib, signals, fetched, redeliveries, portfolio, trades,
                   positions, market_data, queue, pc, job, results,
                   feed_results, activate_calls, logged>>

\* The dict stop_strategy returns.
stop_strategy_result(s) ==
    IF strategy[s].exists
    THEN [status |-> "success", message |-> "Strategy stopped"]
    ELSE [status |-> "error", message |-> "Strategy not found"]

stop_strategy(s) ==
    /\ strategy' = IF strategy[s].exists
                   THEN [strategy EXCEPT ![s].is_active = FALSE]
                   ELSE strategy
    /\ UNCHANGED <<talib, signals, fetched, redeliveries, portfolio, trades,
                   positions, market_data, queue, pc, job, results,
                   feed_results, activate_calls, logged>>

\* The broker delivers again a message it has delivered to worker w and
\* holds no acknowledgement of: a second copy joins the queue while w goes
\* on with the first.
redeliver(w) ==
    /\ activate_calls + redeliveries < MaxActivate
    /\ pc[w] = "load"
    /\ job[w].delivery = 1
    /\ redeliveries' = redeliveries + 1
    /\ queue' = Append(queue, Msg(job[w].strategy_id, 2))
    /\ UNCHANGED <<strategy, portfolio, trades, positions, market_data, pc, job,
                   results, feed_results, activate_calls, logged, talib, signals,
                   fetched>>

\* ------------------------------------------------------------ market_data.py
\* Symbols update_prices tracks.
TrackedSymbols == {"AAPL", "GOOGL", "MSFT", "BTC-USD", "ETH-USD"}

\* Keywords update_prices passes to MarketData(...).
FeedKwargs == {"symbol", "timestamp", "open", "high", "low", "close", "volume"}

\* A cycle that commits each symbol's bar as it goes and fails after the
\* first.
update_prices_per_symbol ==
    /\ market_data' = market_data \cup
           {[symbol |-> "AAPL", cycle |-> Cardinality(market_data)]}
    /\ feed_results' = {[status |-> "error"]}
    /\ UNCHANGED <<talib, signals, fetched, redeliveries, strategy, portfolio,
                   trades, positions, queue, pc, job, results, activate_calls,
                   logged>>

\* update_prices, the one entry of beat_schedule: one MarketData row per
\* tracked symbol and one commit after the loop; an exception rolls back and
\* returns an "error" dict.
update_prices ==
    /\ IF DeclarativeAccepts(FeedKwargs, MarketDataAttrs)
       THEN /\ market_data' = market_data \cup
                   {[symbol |-> sym, cycle |-> Cardinality(market_data)] :
                        sym \in TrackedSymbols}
            /\ feed_results' =
                   {[status |-> "success",
                     symbols_updated |-> Cardinality(TrackedSymbols)]}
       ELSE /\ market_data' = market_data
            /\ feed_results' = {[status |-> "error"]}
    /\ UNCHANGED <<talib, signals, fetched, redeliveries, strategy, portfolio,
                   trades, positions, queue, pc, job, results, activate_calls,
                   logged>>

\* ------------------------------------------------------------ specification
Next ==
    \/ \E p \in Portfolios, b \in InitialBalances : create_portfolio(p, b)
    \/ \E s \in Strategies, p \in Portfolios :
          \E kind \in KindsOf(s) : create_strategy(s, p, kind[1], kind[2])
    \/ \E s \in Strategies, caller \in Users, broker_up \in BOOLEAN :
          activate_strategy(s, caller, broker_up)
    \/ \E s \in Strategies, caller \in Users : deactivate_strategy(s, caller)
    \/ \E s \in Strategies : stop_strategy(s)
    \/ \E w \in Workers : receive(w)
    \/ \E w \in Workers : execute_strategy_load(w)
    \/ \E w \in Workers, bars \in FetchedBars, raises \in BOOLEAN :
          execute_strategy_run(w, bars, raises)
    \/ \E w \in Workers, raises \in BOOLEAN : execute_strategy_trade(w, raises)
    \/ \E w \in Workers, where \in {"get_bars", "signal", "task"},
          sample \in SampleBars : soft_time_limit(w, where, sample)
    \/ \E w \in Workers : redeliver(w)
    \/ \E p \in Portfolios, side \in RouteSides, q \in RouteQuantities,
          c \in RoutePrices : execute_trade(p, side, q, c)
    \/ update_prices

Spec == Init /\ [][Next]_vars

\* Celery delivers every queued message to a free worker, a worker runs the
\* task it holds to its end, and beat keeps firing its schedule.  Requests to
\* the API are the users' and carry no fairness.
FairSpec ==
    /\ Spec
    /\ \A w \in Workers : WF_vars(receive(w))
    /\ \A w \in Workers : WF_vars(execute_strategy_load(w))
    /\ \A w \in Workers :
          WF_vars(\E bars \in FetchedBars, raises \in BOOLEAN :
                     execute_strategy_run(w, bars, raises))
    /\ \A w \in Workers :
          WF_vars(\E raises \in BOOLEAN : execute_strategy_trade(w, raises))
    /\ WF_vars(update_prices)

\* ------------------------------------------------------------ one job
\* The rows a query of execute_strategy can find for an id: none, or a
\* strategy of one of the kinds, active or not, in portfolio p.
StrategyRows(s, p) ==
    {NoRow} \cup
    {[exists |-> TRUE, user_id |-> "u1", portfolio_id |-> p,
      strategy_type |-> kind[1],
      parameters |-> [quantity |-> kind[2]], is_active |-> active] :
         kind \in KindsOf(s), active \in BOOLEAN}

\* The rows the portfolio query can find: none, or the portfolio as created.
PortfolioRows ==
    {NoRow} \cup
    {[exists |-> TRUE, initial_balance |-> b, current_balance |-> b] :
         b \in InitialBalances}

\* A delivered execute_strategy message meets any content of the two tables
\* it queries.  The message carries an id only, and both foreign keys are ON
\* DELETE CASCADE: a row that existed when the message was sent can be gone
\* when the task queries it, the portfolio between the task's two queries.
JobInit ==
    /\ strategy \in [Strategies -> UNION {StrategyRows(s, "p1") : s \in Strategies}]
    /\ \A s \in Strategies : strategy[s] \in StrategyRows(s, "p1")
    /\ portfolio \in [Portfolios -> PortfolioRows]
    /\ trades = <<>>
    /\ positions = {}
    /\ market_data = {}
    /\ queue = <<>>
    /\ job \in [Workers -> {Msg(s, 1) : s \in Strategies} \cup {NoJob}]
    /\ job["w1"] # NoJob
    /\ pc = [w \in Workers |-> IF job[w] = NoJob THEN "idle" ELSE "load"]
    /\ results = {}
    /\ feed_results = {}
    /\ activate_calls = 0
    /\ logged = {}
    /\ talib \in BOOLEAN
    /\ signals = [w \in Workers |-> {}]
    /\ fetched = [w \in Workers |-> NoBars]
    /\ redeliveries = 0

\* The steps of the delivered jobs.
JobNext ==
    \/ \E w \in Workers : execute_strategy_load(w)
    \/ \E w \in Workers, bars \in FetchedBars, raises \in BOOLEAN :
          execute_strategy_run(w, bars, raises)
    \/ \E w \in Workers, raises \in BOOLEAN : execute_strategy_trade(w, raises)

JobSpec == JobInit /\ [][JobNext]_vars

\* ------------------------------------------------------------ a stored ledger
\* A row of the trades table as a committed Trade of portfolio p shows in
\* the model.
StoredTrade(p, side, quantity, price) ==
    [portfolio_id |-> p, symbol |-> "AAPL", side |-> side,
     quantity |-> quantity, price |-> price,
     total_value |-> quantity * price, order_type |-> "market",
     status |-> "executed"]

\* The engine starts on a database that holds a portfolio and two trades of
\* it already.
LedgerInit ==
    /\ strategy = [s \in Strategies |-> NoRow]
    /\ portfolio \in [Portfolios -> PortfolioRows \ {NoRow}]
    /\ trades = <<StoredTrade("p1", "buy", MaxQuantity, 100),
                  StoredTrade("p1", "sell", 1, 80)>>
    /\ positions = {}
    /\ market_data = {}
    /\ queue = <<>>
    /\ pc = [w \in Workers |-> "idle"]
    /\ job = [w \in Workers |-> NoJob]
    /\ results = {}
    /\ feed_results = {}
    /\ activate_calls = 0
    /\ logged = {}
    /\ talib \in BOOLEAN
    /\ signals = [w \in Workers |-> {}]
    /\ fetched = [w \in Workers |-> NoBars]
    /\ redeliveries = 0

\* The operations of the engine on that database.
LedgerNext ==
    \/ \E s \in Strategies, p \in Portfolios :
          \E kind \in KindsOf(s) : create_strategy(s, p, kind[1], kind[2])
    \/ \E s \in Strategies, caller \in Users, broker_up \in BOOLEAN :
          activate_strategy(s, caller, broker_up)
    \/ \E s \in Strategies, caller \in Users : deactivate_strategy(s, caller)
    \/ \E s \in Strategies : stop_strategy(s)
    \/ \E w \in Workers : receive(w)
    \/ \E w \in Workers : execute_strategy_load(w)
    \/ \E w \in Workers, bars \in FetchedBars, raises \in BOOLEAN :
          execute_strategy_run(w, bars, raises)
    \/ \E w \in Workers, raises \in BOOLEAN : execute_strategy_trade(w, raises)
    \/ \E w \in Workers, where \in {"get_bars", "signal", "task"},
          sample \in SampleBars : soft_time_limit(w, where, sample)
    \/ \E w \in Workers : redeliver(w)
    \/ \E p \in Portfolios, side \in RouteSides, q \in RouteQuantities,
          c \in RoutePrices : execute_trade(p, side, q, c)
    \/ update_prices

LedgerSpec == LedgerInit /\ [][LedgerNext]_vars

\* ------------------------------------------------------------ ledger views
Symbols == {"AAPL"}

\* Side strings of a buy and of a sell: the API documents 'buy'/'sell', the
\* signal functions write "BUY"/"SELL".
IsBuy(side) == side \in {"buy", "BUY"}
IsSell(side) == side \in {"sell", "SELL"}

\* The executed trades of (p, sym), as indexes into the trades table.
ExecutedOf(p, sym) ==
    {k \in 1..Len(trades) :
        /\ trades[k].status = "executed"
        /\ trades[k].portfolio_id = p
        /\ trades[k].symbol = sym}

RECURSIVE SumOver(_, _)
\* Sum of f[k] over the finite set K.
SumOver(K, f) ==
    IF K = {} THEN 0
    ELSE LET k == CHOOSE x \in K : TRUE IN f[k] + SumOver(K \ {k}, f)

\* Executed buy quantities minus executed sell quantities of (p, sym).
LedgerQuantity(p, sym) ==
    SumOver(ExecutedOf(p, sym),
            [k \in 1..Len(trades) |->
                IF IsBuy(trades[k].side) THEN trades[k].quantity
                ELSE IF IsSell(trades[k].side) THEN 0 - trades[k].quantity
                ELSE 0])

\* Executed sell values minus executed buy values of portfolio p.
LedgerCash(p) ==
    SumOver(UNION {ExecutedOf(p, sym) : sym \in Symbols},
            [k \in 1..Len(trades) |->
                IF IsBuy(trades[k].side) THEN 0 - trades[k].total_value
                ELSE IF IsSell(trades[k].side) THEN trades[k].total_value
                ELSE 0])

\* Position.quantity of (p, sym); no row counts as 0.
PositionQuantity(p, sym) ==
    LET rows == {r \in positions : r.portfolio_id = p /\ r.symbol = sym}
    IN  IF rows = {} THEN 0 ELSE (CHOOSE r \in rows : TRUE).quantity

\* A worker is executing the strategy logic of s (it has loaded s).
Running(w, s) == pc[w] \in {"run", "trade"} /\ job[w].strategy_id = s

\* Number of messages for s waiting in the queue.
Queued(s) == Cardinality({k \in 1..Len(queue) : queue[k].strategy_id = s})

\* The signal the run of worker w is about to hand to _execute_trade is a
\* valid buy intent of quantity q at price c for portfolio p.
HandsValidBuy(w, q, c, p) ==
    /\ pc[w] = "trade"
    /\ strategy[job[w].strategy_id].portfolio_id = p
    /\ \E x \in signals[w] :
          /\ x.side = "BUY"
          /\ x.quantity = q
          /\ x.price = c
    /\ q > 0

\* ------------------------------------------------------------ claims

\* C1: at no instant are two execute_strategy runs of the same strategy in
\* flight.  Stated for runs that have both loaded the strategy.
C1_MutualExclusion ==
    \A w1 \in Workers, w2 \in Workers, s \in Strategies :
        (Running(w1, s) /\ Running(w2, s)) => w1 = w2

C3_PositionIsSignedSum ==
    [][/\ \A p \in Portfolios, sym \in Symbols :
             /\ PositionQuantity(p, sym)' = LedgerQuantity(p, sym)'
             /\ PositionQuantity(p, sym)' >= 0
       /\ \A w \in Workers, c \in Prices, q \in 0..DefaultQuantity, p \in Portfolios :
             (HandsValidBuy(w, q, c, p) /\ execute_strategy_trade(w, FALSE)) =>
                 /\ Len(trades') = Len(trades) + 1
                 /\ PositionQuantity(p, "AAPL")' =
                        PositionQuantity(p, "AAPL") + q]_vars

\* C4: current_balance equals initial_balance minus executed buy values plus
\* executed sell values, after any sequence of executed trades; a run that
\* hands the Trade Executor a valid buy of q at price c leaves the balance
\* q * c lower.
C4_BalanceIsLedger ==
    [][/\ \A p \in Portfolios :
             portfolio'[p].exists =>
                 portfolio'[p].current_balance =
                     portfolio'[p].initial_balance + LedgerCash(p)'
       /\ \A w \in Workers, c \in Prices, q \in 0..DefaultQuantity, p \in Portfolios :
             (HandsValidBuy(w, q, c, p) /\ execute_strategy_trade(w, FALSE)) =>
                 portfolio'[p].current_balance =
                     portfolio[p].current_balance - q * c]_vars

\* Number of first deliveries for s waiting in the queue: the jobs that were
\* scheduled for s, a second delivery of one of them not counted.
Scheduled(s) ==
    Cardinality({k \in 1..Len(queue) : queue[k] = Msg(s, 1)})

\* C5: a deactivation leaves the runs in flight alone; a run whose strategy
\* was deactivated under it goes on to its end and returns what it would have
\* returned otherwise (the success result, or the error of an exception),
\* never the error of an inactive strategy; and a step that schedules a job
\* for s leaves s active: nothing is scheduled for a deactivated strategy
\* until it is activated again.
C5_DeactivateIsCooperative ==
    [][\A s \in Strategies :
          /\ (\E caller \in Users : deactivate_strategy(s, caller)) =>
                 UNCHANGED <<pc, job, queue, results>>
          /\ \A w \in Workers :
                (Running(w, s) /\ ~IsActive(s)) =>
                    \/ Running(w, s)'
                    \/ /\ pc'[w] = "idle"
                       /\ results' # {}
                       /\ \A r \in results' :
                             IF r.status = "success"
                             THEN r.strategy_id = s
                             ELSE r.message = "exception"
          /\ Scheduled(s)' > Scheduled(s) => IsActive(s)']_vars

\* C5 witness: a run is in flight on a strategy that has been deactivated.
C5_Witness ==
    \E w \in Workers, s \in Strategies : Running(w, s) /\ ~IsActive(s)

\* C6: an activate request that succeeds on an inactive strategy leaves it
\* active and the queue longer by exactly one message, for that strategy.
C6_ActivateEnqueuesOne ==
    [][\A s \in Strategies :
          (/\ strategy[s].exists
           /\ ~IsActive(s)
           /\ activate_strategy(s, strategy[s].user_id, TRUE)) =>
              /\ IsActive(s)'
              /\ queue' = Append(queue, Msg(s, 1))]_vars

\* C6 witness: after the first activate request, of an inactive strategy,
\* the strategy is active and its one message is on the queue.
C6_Witness ==
    \E s \in Strategies :
        /\ activate_calls = 1
        /\ IsActive(s)
        /\ queue = <<Msg(s, 1)>>

\* An execute_strategy run of s has returned its success result.
Executed(s) ==
    \E r \in results : r.status = "success" /\ r.strategy_id = s

\* C7: a strategy that stays active is executed infinitely often, not only
\* once at activation.  Stated for a strategy whose activation did dispatch
\* its immediate job and that was executed at least once.
C7_ActiveRunsRecur ==
    \A s \in Strategies :
        ((<>[]IsActive(s)) /\ <>Executed(s)) =>
            ([]<>(\E w \in Workers : Running(w, s)))

\* C8: activate on an active strategy and deactivate on an inactive one
\* change no strategy and enqueue nothing.
C8_RepeatIsNoOp ==
    [][\A s \in Strategies :
          /\ (/\ IsActive(s)
              /\ \E b \in BOOLEAN : activate_strategy(s, strategy[s].user_id, b)) =>
                 UNCHANGED <<strategy, queue>>
          /\ (/\ strategy[s].exists
              /\ ~IsActive(s)
              /\ deactivate_strategy(s, strategy[s].user_id)) =>
                 UNCHANGED <<strategy, queue>>]_vars

\* The types with a signal function in execute_strategy; the code registers
\* no custom type.
RegisteredTypes == {"momentum", "mean_reversion"}

\* A parameter set with a quantity no trade can have is malformed.
WellFormed(parameters) == \A q \in parameters.quantity : q > 0

\* C9: a strategy of an unregistered type, or with malformed parameters, is
\* never active (activate rejects it) and no message for it is enqueued.
C9_ActivateValidates ==
    \A s \in Strategies :
        (strategy[s].exists /\ (strategy[s].is_active \/ Queued(s) > 0)) =>
            /\ strategy[s].strategy_type \in RegisteredTypes
            /\ WellFormed(strategy[s].parameters)

\* C10: every result an execution job returns has a status among success,
\* skipped and failed.
C10_ResultStatus ==
    \A r \in results : r.status \in {"success", "skipped", "failed"}

\* The series is shorter than the minimum of the strategy's type.
TooShort(row, bars) ==
    \/ row.strategy_type = "momentum" /\ bars.n < MinMomentumBars
    \/ row.strategy_type = "mean_reversion" /\ bars.n < MinMeanReversionBars

\* Worker w's run is of a strategy of the given type.
RunsType(w, strategy_type) ==
    /\ pc[w] = "run"
    /\ strategy[job[w].strategy_id].strategy_type = strategy_type

\* C11: a job whose price series is shorter than the minimum of its strategy
\* type (50 bars for momentum, 20 for mean reversion) completes with status
\* skipped, not with an error status, and executes no trade.
C11_ShortSeriesSkips ==
    [][\A w \in Workers, bars \in Bars :
          (/\ pc[w] = "run"
           /\ TooShort(strategy[job[w].strategy_id], bars)
           /\ execute_strategy_run(w, bars, FALSE)) =>
              /\ results' # {}
              /\ \A r \in results' : r.status = "skipped"
              /\ trades' = trades]_vars

\* The sides of the intents worker w's evaluation has emitted.
Emitted(w) == {x.side : x \in signals[w]}

\* The momentum rule as the claim states it, for a run of worker w on bars.
MomentumRuleHolds(w, bars) ==
    /\ "BUY" \in Emitted(w)' <=>
           (bars.rsi < Oversold /\ bars.macd > bars.signal)
    /\ "SELL" \in Emitted(w)' <=>
           (bars.rsi > Overbought /\ bars.macd < bars.signal)
    /\ Cardinality(signals'[w]) <= 1

\* C12, as amended: in a worker where TA-Lib can be imported, a momentum
\* strategy with at least 50 bars emits BUY exactly when RSI < 30 and the MACD
\* line is above its signal line, SELL exactly when RSI > 70 and the MACD line
\* is below its signal line, nothing otherwise, and never two intents.
C12_MomentumRule ==
    [][\A w \in Workers, bars \in Bars :
          (/\ RunsType(w, "momentum")
           /\ talib
           /\ bars.n >= MinMomentumBars
           /\ \E raises \in BOOLEAN : execute_strategy_run(w, bars, raises)) =>
              MomentumRuleHolds(w, bars)]_vars

\* C12 witness: a momentum run has emitted BUY on bars with RSI < 30 and the
\* MACD line above its signal line.
C12_Witness ==
    \E w \in Workers :
        /\ pc[w] = "trade"
        /\ strategy[job[w].strategy_id].strategy_type = "momentum"
        /\ Emitted(w) = {"BUY"}
        /\ fetched[w].rsi < Oversold
        /\ fetched[w].macd > fetched[w].signal

\* C12 as the claim states it, for every momentum strategy with at least 50
\* bars, whether or not TA-Lib can be imported.
C12_MomentumRuleAlways ==
    [][\A w \in Workers, bars \in Bars :
          (/\ RunsType(w, "momentum")
           /\ bars.n >= MinMomentumBars
           /\ \E raises \in BOOLEAN : execute_strategy_run(w, bars, raises)) =>
              MomentumRuleHolds(w, bars)]_vars

\* The mean-reversion rule as the claim states it.
MeanReversionRuleHolds(w, bars) ==
    /\ "BUY" \in Emitted(w)' <=> bars.close < bars.lower
    /\ "SELL" \in Emitted(w)' <=> bars.close > bars.upper
    /\ Cardinality(signals'[w]) <= 1

\* C13, as amended: in a worker where TA-Lib can be imported, a
\* mean-reversion strategy with at least 20 bars emits BUY exactly when the
\* last close is below the lower Bollinger band, SELL exactly when it is above
\* the upper band, and nothing when it lies within the bands, bounds included.
C13_MeanReversionRule ==
    [][\A w \in Workers, bars \in Bars :
          (/\ RunsType(w, "mean_reversion")
           /\ talib
           /\ bars.n >= MinMeanReversionBars
           /\ \E raises \in BOOLEAN : execute_strategy_run(w, bars, raises)) =>
              MeanReversionRuleHolds(w, bars)]_vars

\* C13 witness: a mean-reversion run has emitted SELL on a close above the
\* upper band.
C13_Witness ==
    \E w \in Workers :
        /\ pc[w] = "trade"
        /\ strategy[job[w].strategy_id].strategy_type = "mean_reversion"
        /\ Emitted(w) = {"SELL"}
        /\ fetched[w].close > fetched[w].upper

\* C13 as the claim states it, whether or not TA-Lib can be imported.
C13_MeanReversionRuleAlways ==
    [][\A w \in Workers, bars \in Bars :
          (/\ RunsType(w, "mean_reversion")
           /\ bars.n >= MinMeanReversionBars
           /\ \E raises \in BOOLEAN : execute_strategy_run(w, bars, raises)) =>
              MeanReversionRuleHolds(w, bars)]_vars

\* Two strategies of the same type with identical parameters.
SameKind(s1, s2) ==
    /\ strategy[s1].strategy_type = strategy[s2].strategy_type
    /\ strategy[s1].parameters = strategy[s2].parameters

HandsOversell(w) ==
    /\ pc[w] = "trade"
    /\ \E x \in signals[w] :
          /\ x.side = "SELL"
          /\ x.quantity >
                 PositionQuantity(strategy[job[w].strategy_id].portfolio_id,
                                  x.symbol)

\* C15: a sell intent whose quantity exceeds the position, a sell with no
\* position included, fails with InsufficientPosition (the job does not
\* report success) and leaves trades, positions and the balance unchanged.
C15_OversellRejected ==
    [][\A w \in Workers :
          (HandsOversell(w) /\ execute_strategy_trade(w, FALSE)) =>
              /\ UNCHANGED <<trades, positions, portfolio>>
              /\ \A r \in results' : r.status # "success"]_vars

LeaseHeld(w, s) == \E v \in Workers \ {w} : Running(v, s)

\* C17: a job that finds its strategy's lease held by another worker is
\* requeued: it is put back on the queue, it is not executed beside the
\* other, and no error result is returned for it.
C17_ConflictRequeues ==
    [][\A w \in Workers :
          (/\ pc[w] = "load"
           /\ LeaseHeld(w, job[w].strategy_id)
           /\ execute_strategy_load(w)) =>
              /\ queue' = Append(queue, job[w])
              /\ pc'[w] = "idle"
              /\ results' = results]_vars

\* C18: a second delivery of a job whose first delivery was executed
\* produces no second execution: it does not run the strategy logic again,
\* so at most one trade and one last_executed_at update come of the job.
C18_DuplicateDeliveryIsIdempotent ==
    [][\A w \in Workers :
          (/\ pc[w] = "load"
           /\ job[w].delivery = 2
           /\ Executed(job[w].strategy_id)
           /\ execute_strategy_load(w)) =>
              pc'[w] # "run"]_vars

\* C19: a failure while producing the bar of one tracked symbol does not fail
\* the feed cycle: the cycle reports success and the bars of the other
\* symbols are persisted.
C19_FeedPartialSuccess ==
    [][update_prices =>
          /\ feed_results' # {}
          /\ \A r \in feed_results' : r.status = "success"
          /\ \E failed \in TrackedSymbols :
                \A sym \in TrackedSymbols \ {failed} :
                    \E row \in market_data' : row.symbol = sym]_vars

\* C20: a job that fails for one strategy neither stops the worker pool nor
\* keeps the jobs of other strategies from being executed: every worker that
\* holds a job becomes free again, whatever the job's outcome, and a queued
\* job of a strategy is executed unless the strategy is inactive by then.
C20_FailureIsLocal ==
    /\ \A w \in Workers : (pc[w] # "idle") ~> (pc[w] = "idle")
    /\ \A s \in Strategies :
          (Queued(s) > 0) ~> ((\E w \in Workers : Running(w, s)) \/ ~IsActive(s))

\* C20 witness: the job that ended last returned an error result, and a
\* worker is executing a job.
C20_Witness ==
    /\ \E r \in results : r.status = "error"
    /\ \E w \in Workers, s \in Strategies : Running(w, s)

\* C21: a job that runs while its strategy exists with is_active false
\* completes with status skipped, which the failure result of a missing
\* strategy is not, and does not go on to evaluate signals.
C21_InactiveSkips ==
    [][\A w \in Workers :
          (/\ pc[w] = "load"
           /\ strategy[job[w].strategy_id].exists
           /\ ~strategy[job[w].strategy_id].is_active
           /\ execute_strategy_load(w)) =>
              /\ pc'[w] = "idle"
              /\ results' # {}
              /\ \A r \in results' : r.status = "skipped"]_vars

\* The job worker w holds finds no Strategy row, or no Portfolio row for the
\* strategy it found.
RowMissing(w) ==
    LET s == job[w].strategy_id
    IN  \/ ~strategy[s].exists
        \/ ~portfolio[strategy[s].portfolio_id].exists

\* C22: a job whose Strategy or whose Portfolio does not exist in the store
\* ends as failed (the status is "error", the one failure status the task
\* returns), with the missing row as the reason, and executes no trade: it
\* ends at the query, before any signal is evaluated.
C22_MissingRowFails ==
    [][\A w \in Workers :
          (pc[w] = "load" /\ RowMissing(w) /\ execute_strategy_load(w)) =>
              /\ pc'[w] = "idle"
              /\ results' # {}
              /\ \A r \in results' :
                    /\ r.status = "error"
                    /\ r.message \in {"Strategy not found or inactive",
                                      "Portfolio not found"}
              /\ trades' = trades]_vars

\* C22 witness: a job found its strategy, active, and no portfolio for it,
\* and returned the error; no trade is in the table.
C22_Witness ==
    /\ \E s \in Strategies :
          /\ IsActive(s)
          /\ ~portfolio[strategy[s].portfolio_id].exists
    /\ results = {[status |-> "error", message |-> "Portfolio not found"]}
    /\ \E w \in Workers : pc[w] = "idle" /\ job[w] = NoJob
    /\ trades = <<>>

\* An intent the Trade Executor is to accept: a buy or a sell of a positive
\* quantity at a positive price.
ValidIntent(side, quantity, price) ==
    /\ IsBuy(side) \/ IsSell(side)
    /\ quantity > 0
    /\ price > 0

\* Worker w is about to hand _execute_trade an intent that is not valid.
HandsInvalid(w) ==
    /\ pc[w] = "trade"
    /\ \E x \in signals[w] : ~ValidIntent(x.side, x.quantity, x.price)

HandsValid(w, x) ==
    /\ pc[w] = "trade"
    /\ x \in signals[w]
    /\ ValidIntent(x.side, x.quantity, x.price)

\* C24: when the evaluator has produced an intent that passes validation, the
\* Trade Executor inserts one Trade, of status executed and of total_value
\* quantity * price, and the job reports trades_executed = 1.
C24_ValidIntentInsertsTrade ==
    [][\A w \in Workers :
          \A x \in signals[w] :
              (HandsValid(w, x) /\ execute_strategy_trade(w, FALSE)) =>
                  /\ Len(trades') = Len(trades) + 1
                  /\ trades'[Len(trades')].status = "executed"
                  /\ trades'[Len(trades')].total_value = x.quantity * x.price
                  /\ results' =
                         {Returned(job[w].strategy_id, 1, FALSE)}]_vars

\* Position.average_entry_price of (p, sym); no row counts as 0.
PositionAverage(p, sym) ==
    LET rows == {r \in positions : r.portfolio_id = p /\ r.symbol = sym}
    IN  IF rows = {} THEN 0 ELSE (CHOOSE r \in rows : TRUE).average_entry_price

\* C25: a buy raises the Position's quantity by the intent's quantity and
\* makes its average_entry_price (old_qty * old_avg + quantity * price) /
\* (old_qty + quantity); a first buy, on no position, leaves quantity = qty,
\* the average at the price, and the balance lower by price * qty.  A sell
\* leaves the average_entry_price as it was.
C25_BuyAveragesIn ==
    [][\A w \in Workers :
          \A x \in signals[w] :
              (HandsValid(w, x) /\ execute_strategy_trade(w, FALSE)) =>
                  LET p == strategy[job[w].strategy_id].portfolio_id
                      old_qty == PositionQuantity(p, x.symbol)
                      old_avg == PositionAverage(p, x.symbol)
                  IN  IF IsBuy(x.side)
                      THEN /\ PositionQuantity(p, x.symbol)' =
                                  old_qty + x.quantity
                           /\ PositionAverage(p, x.symbol)' *
                                  (old_qty + x.quantity) =
                                  old_qty * old_avg + x.quantity * x.price
                           /\ old_qty = 0 =>
                                  portfolio'[p].current_balance =
                                      portfolio[p].current_balance -
                                          x.price * x.quantity
                      ELSE PositionAverage(p, x.symbol)' = old_avg]_vars

\* C26: a job that exceeds the execution timeout is marked failed and gives
\* up its strategy (the lease there would be is released: the worker is free
\* and no longer executing the strategy), so that a later trigger can
\* execute.
C26_TimeoutFailsAndReleases ==
    [][\A w \in Workers, where \in {"get_bars", "signal", "task"},
         sample \in SampleBars :
          soft_time_limit(w, where, sample) =>
              /\ pc'[w] = "idle"
              /\ \A s \in Strategies : ~Running(w, s)'
              /\ results' # {}
              /\ \A r \in results' : r.status # "success"]_vars

\* C27: jobs of the same strategy execute in the order of their triggers, one
\* after the other: a job begins to execute only when no other job of its
\* strategy is executing, whichever of the two was triggered first.
C27_SameStrategyInOrder ==
    [][\A w \in Workers, s \in Strategies :
          (/\ pc[w] = "load"
           /\ job[w].strategy_id = s
           /\ Running(w, s)') =>
              \A v \in Workers \ {w} : ~Running(v, s)]_vars

\* C28: when the market data provider call fails during a job, the job, its
\* retries used up, is marked failed: it evaluates nothing and reports no
\* success, and the strategy's active flag stays as it was.
C28_ProviderFailureFailsJob ==
    [][\A w \in Workers, sample \in SampleBars, raises \in BOOLEAN :
          (/\ pc[w] = "run"
           /\ strategy[job[w].strategy_id].strategy_type \in
                  {"momentum", "mean_reversion"}
           /\ talib
           /\ execute_strategy_run(w, get_bars(FALSE, NoBars, sample), raises)) =>
              /\ pc'[w] = "idle"
              /\ results' # {}
              /\ \A r \in results' : r.status # "success"
              /\ strategy' = strategy]_vars

\* Number of stored bars of a symbol.
BarsStored(sym) == Cardinality({row \in market_data : row.symbol = sym})

\* The retention window of a symbol's series, in bars.
RetentionWindow == 2

\* C29: every feed cycle appends one bar to the series of each tracked symbol
\* and trims the series to the retention window: after the cycle the series
\* holds one bar more than before, or the window's number of bars, and never
\* more than the window.
C29_SeriesBounded ==
    [][update_prices =>
          \A sym \in TrackedSymbols :
              /\ BarsStored(sym)' <= RetentionWindow
              /\ BarsStored(sym)' =
                     IF BarsStored(sym) < RetentionWindow
                     THEN BarsStored(sym) + 1
                     ELSE RetentionWindow]_vars

\* The table a was extended to the table b: every row of a is in b, at its
\* place and with its fields.
Extends(a, b) == Len(a) <= Len(b) /\ SubSeq(b, 1, Len(a)) = a

\* C30: the Trade ledger is append-only: no operation of the engine modifies
\* or removes a Trade record; every step leaves each trade where and as it
\* was and at most adds trades after them.
C30_LedgerAppendOnly == [][Extends(trades, trades')]_vars

\* C30 witness: on a database that holds two trades, a job has handed an
\* intent to _execute_trade and returned, a feed cycle has run, and a strategy
\* that was activated has been deactivated or stopped; the two trades are in
\* the table as they were.
C30_Witness ==
    /\ Len(trades) = 2
    /\ trades[1] = StoredTrade("p1", "buy", MaxQuantity, 100)
    /\ trades[2] = StoredTrade("p1", "sell", 1, 80)
    /\ "Error executing trade" \in logged
    /\ results # {}
    /\ feed_results # {}
    /\ activate_calls > 0
    /\ \A s \in Strategies : ~IsActive(s)

\* The columns of a strategies row the model holds, last_executed_at apart.
StrategyFields ==
    {"user_id", "portfolio_id", "strategy_type", "parameters", "is_active"}

\* The step leaves every strategy row in place with these columns as they
\* were.
KeepsStrategies ==
    \A s \in Strategies :
        /\ strategy'[s].exists = strategy[s].exists
        /\ strategy[s].exists =>
              \A f \in StrategyFields : strategy'[s][f] = strategy[s][f]

\* C31: signal evaluation is side-effect-free on the store: the step of a
\* job that evaluates a momentum or mean-reversion signal leaves every
\* Strategy, Portfolio, Position and Trade as it was, whether the evaluation
\* returns an intent or none or ends in an exception or the time limit.
C31_EvaluationWritesNothing ==
    [][\A w \in Workers :
          (/\ pc[w] = "run"
           /\ \/ \E bars \in FetchedBars, raises \in BOOLEAN :
                    execute_strategy_run(w, bars, raises)
              \/ \E where \in {"get_bars", "signal", "task"},
                    sample \in SampleBars : soft_time_limit(w, where, sample)) =>
              /\ UNCHANGED <<portfolio, positions, trades>>
              /\ KeepsStrategies]_vars

\* C31 witness: on a database that holds trades, an evaluation has returned
\* an intent; the strategy is active as before and the trades and positions
\* are as they were.
C31_Witness ==
    \E w \in Workers :
        /\ pc[w] = "trade"
        /\ signals[w] # {}
        /\ IsActive(job[w].strategy_id)
        /\ Len(trades) = 2
        /\ positions = {}

\* C32: a strategy's active flag is changed by activate, deactivate and
\* stop_strategy only: a step that changes the flag of s is one of the three
\* on s; and a step of an execution job (a worker moves) leaves every column
\* of every strategy as it was and adds to a row no field but
\* last_executed_at.
C32_OnlyRoutesSetActive ==
    [][/\ \A s \in Strategies :
             (/\ strategy[s].exists
              /\ strategy'[s].is_active # strategy[s].is_active) =>
                 \/ \E caller \in Users, b \in BOOLEAN :
                       activate_strategy(s, caller, b)
                 \/ \E caller \in Users : deactivate_strategy(s, caller)
                 \/ stop_strategy(s)
       /\ (\E w \in Workers : pc'[w] # pc[w]) =>
             /\ KeepsStrategies
             /\ \A s \in Strategies :
                   DOMAIN strategy'[s] \subseteq
                       DOMAIN strategy[s] \cup {"last_executed_at"}]_vars

\* C32 witness: a job of an active strategy has run to its success result
\* and the strategy is active as before.
C32_Witness ==
    \E s \in Strategies :
        /\ IsActive(s)
        /\ results = {Returned(s, 0, FALSE)}
        /\ \A w \in Workers : pc[w] = "idle"

\* C33: a job that got past loading its strategy and portfolio and completes
\* with status success has set the strategy's last_executed_at: the row holds
\* the time of that run when the job returns.
C33_SuccessSetsLastExecuted ==
    [][\A w \in Workers, s \in Strategies :
          (/\ Running(w, s)
           /\ pc'[w] = "idle"
           /\ \E r \in results' : r.status = "success") =>
              "last_executed_at" \in DOMAIN strategy'[s]]_vars

\* C34, as amended: every emitted intent carries as its quantity the
\* strategy's quantity parameter, or 10 where the strategy configures none,
\* and as its price the last close of the series it was evaluated on.
C34_IntentQuantityAndPrice ==
    [][\A w \in Workers :
          (pc[w] = "run" /\ pc'[w] = "trade") =>
              \A x \in signals'[w] :
                  /\ x.quantity =
                         Get(strategy[job[w].strategy_id].parameters.quantity,
                             DefaultQuantity)
                  /\ x.price = fetched'[w].close]_vars

\* C34 witness: a strategy that configures the quantity MaxQuantity has
\* emitted an intent of that quantity at the last close of its series.
C34_Witness ==
    \E w \in Workers :
        /\ pc[w] = "trade"
        /\ strategy[job[w].strategy_id].parameters.quantity = {MaxQuantity}
        /\ \E x \in signals[w] :
              x.quantity = MaxQuantity /\ x.price = fetched[w].close

\* C34 as the claim states it: the quantity of every emitted intent is the
\* quantity the strategy configures, and no intent has another.
C34_IntentQuantityConfigured ==
    [][\A w \in Workers :
          (pc[w] = "run" /\ pc'[w] = "trade") =>
              \A x \in signals'[w] :
                  /\ x.quantity \in
                         strategy[job[w].strategy_id].parameters.quantity
                  /\ x.price = fetched'[w].close]_vars

\* The caller has no strategy s: there is none of that id, or it is another
\* user's.
NotTheirs(s, caller) == ~strategy[s].exists \/ strategy[s].user_id # caller

\* C35: activate or deactivate of a strategy that does not exist, or that is
\* not the caller's, is rejected: no strategy's active flag changes and no job
\* is enqueued.
C35_NotFoundChangesNothing ==
    [][\A s \in Strategies, caller \in Users :
          (/\ NotTheirs(s, caller)
           /\ \/ \E b \in BOOLEAN : activate_strategy(s, caller, b)
              \/ deactivate_strategy(s, caller)) =>
              UNCHANGED <<strategy, queue>>]_vars

\* C35 witness: activate requests have been made and rejected: there is no
\* strategy yet, none is active and the queue is empty.
C35_Witness ==
    /\ activate_calls > 0
    /\ \A s \in Strategies : ~strategy[s].exists
    /\ queue = <<>>

\* C36: whenever activate_strategy leaves a strategy active, an execution job
\* for it has been enqueued by that request: there is no outcome of the
\* request in which the strategy is active and no job was dispatched.
C36_ActiveImpliesDispatched ==
    [][\A s \in Strategies, caller \in Users, b \in BOOLEAN :
          (/\ Found(s, caller)
           /\ activate_strategy(s, caller, b)
           /\ IsActive(s)') =>
              queue' = Append(queue, Msg(s, 1))]_vars

\* Worker w holds, not yet loaded, a job of a strategy that exists and is
\* inactive: it was deactivated while its job was in the queue.
LoadsDeactivated(w) ==
    /\ pc[w] = "load"
    /\ strategy[job[w].strategy_id].exists
    /\ ~strategy[job[w].strategy_id].is_active

\* C37: a job that loads its strategy after the strategy was deactivated
\* ends there: it evaluates nothing, creates no Trade and changes no
\* Strategy, Portfolio or Position.
C37_LateJobWritesNothing ==
    [][\A w \in Workers :
          (LoadsDeactivated(w) /\ pc'[w] # pc[w]) =>
              /\ pc'[w] = "idle"
              /\ UNCHANGED <<trades, strategy, portfolio, positions>>]_vars

\* C37 witness: the job of a deactivated strategy has ended with the error
\* of the query; the strategy is inactive and no trade or position exists.
C37_Witness ==
    /\ results =
           {[status |-> "error", message |-> "Strategy not found or inactive"]}
    /\ \E s \in Strategies : strategy[s].exists /\ ~strategy[s].is_active
    /\ \A w \in Workers : pc[w] = "idle"
    /\ positions = {}
    /\ Len(trades) = 2

\* C38: the trades_executed count a job returns equals the number of Trade
\* records the job committed, and is 0 or 1: the step on which a job returns
\* its success result, the only step of a job that can commit a trade, added
\* that many rows to the trades table.
C38_CountIsCommitted ==
    [][\A w \in Workers :
          (pc[w] \in {"run", "trade"} /\ pc'[w] = "idle") =>
              \A r \in results' :
                  r.status = "success" =>
                      /\ r.trades_executed \in {0, 1}
                      /\ Len(trades') = Len(trades) + r.trades_executed
                      /\ Extends(trades, trades')]_vars

\* C38 witness: a job that handed an intent to _execute_trade, in a worker
\* with TA-Lib, has returned trades_executed = 0, and the trades table holds
\* what it held before.
C38_Witness ==
    /\ talib
    /\ "Error executing trade" \in logged
    /\ \E s \in Strategies : results = {Returned(s, 0, FALSE)}
    /\ \A w \in Workers : pc[w] = "idle"
    /\ Len(trades) = 2

\* C39: a feed cycle is all-or-nothing: after it either every tracked symbol
\* has gained exactly one bar and the cycle reports success with
\* symbols_updated the number of tracked symbols, or no bar was stored and
\* the cycle reports an error.
C39_FeedAllOrNothing ==
    [][update_prices =>
          \/ /\ \A sym \in TrackedSymbols :
                   BarsStored(sym)' = BarsStored(sym) + 1
             /\ feed_results' =
                    {[status |-> "success",
                      symbols_updated |-> Cardinality(TrackedSymbols)]}
          \/ /\ market_data' = market_data
             /\ feed_results' # {}
             /\ \A r \in feed_results' : r.status = "error"]_vars

\* C39 witness: a cycle has run and reported an error, and no bar is stored.
C39_Witness ==
    /\ feed_results = {[status |-> "error"]}
    /\ market_data = {}

\* C40: stop_strategy on an existing strategy leaves it inactive whatever its
\* flag was, changes no other column of it, enqueues no job and writes no
\* Trade, and returns success; on a strategy that does not exist it returns
\* an error result and changes nothing.
C40_StopIdempotent ==
    [][\A s \in Strategies :
          stop_strategy(s) =>
              IF strategy[s].exists
              THEN /\ ~IsActive(s)'
                   /\ strategy' = [strategy EXCEPT ![s].is_active = FALSE]
                   /\ stop_strategy_result(s).status = "success"
                   /\ stop_strategy_result(s)' = stop_strategy_result(s)
                   /\ UNCHANGED <<queue, trades, positions, portfolio>>
              ELSE /\ stop_strategy_result(s).status = "error"
                   /\ UNCHANGED vars]_vars

\* C40 witness: a strategy that was activated is inactive while its job
\* still waits in the queue, and no Trade is stored.
C40_Witness ==
    \E s \in Strategies :
        /\ strategy[s].exists
        /\ ~strategy[s].is_active
        /\ Queued(s) = 1
        /\ trades = <<>>
        /\ results = {}
        /\ \A w \in Workers : pc[w] = "idle"

====
